---- MODULE Spec2Model ----
(***************************************************************************)
(* Static asset server (src/index.js): host lookup, logical path mapping,  *)
(* traversal-safe join, file resolution, encoding negotiation and response *)
(* composition, as one request-processing state machine over a filesystem  *)
(* that other processes may change while a request is suspended.           *)
(*                                                                         *)
(* A JavaScript string is a sequence of one-character strings, so that     *)
(* regular expressions, path.join, path.extname and indexOf are computed   *)
(* character by character.                                                 *)
(***************************************************************************)
EXTENDS Integers, Sequences, FiniteSets, TLC

VARIABLES fs, unlinks, rq

vars == <<fs, unlinks, rq>>

-----------------------------------------------------------------------------
(* Bounds of the model *)

\* number of path segments of the generated (adversarial) request paths
MaxSegs == 3

\* number of files other processes delete while requests are handled
MaxUnlinks == 1




-----------------------------------------------------------------------------
(* Characters and strings *)

Digits == {"0", "1", "2", "3", "4", "5", "6", "7", "8", "9"}

LowerCase ==
  <<"a", "b", "c", "d", "e", "f", "g", "h", "i", "j", "k", "l", "m",
    "n", "o", "p", "q", "r", "s", "t", "u", "v", "w", "x", "y", "z">>

UpperCase ==
  <<"A", "B", "C", "D", "E", "F", "G", "H", "I", "J", "K", "L", "M",
    "N", "O", "P", "Q", "R", "S", "T", "U", "V", "W", "X", "Y", "Z">>

Range(s) == {s[i] : i \in DOMAIN s}

Letters == Range(LowerCase) \cup Range(UpperCase)

\* the undefined / null value of a string-valued JavaScript expression
\* (no string the program computes is empty)
NoString == <<>>

Last(s) == s[Len(s)]

Front(s) == SubSeq(s, 1, Len(s) - 1)

\* s.indexOf(p) === 0
StartsWith(s, p) == Len(s) >= Len(p) /\ SubSeq(s, 1, Len(p)) = p

EndsWith(s, p) == Len(s) >= Len(p) /\ SubSeq(s, Len(s) - Len(p) + 1, Len(s)) = p

AllDigits(s) == \A i \in DOMAIN s : s[i] \in Digits

ToLowerChar(c) ==
  IF c \in Range(UpperCase)
    THEN LowerCase[CHOOSE i \in DOMAIN UpperCase : UpperCase[i] = c]
    ELSE c

ToLower(s) == [i \in DOMAIN s |-> ToLowerChar(s[i])]

\* index of the last occurrence of character c in s, 0 when there is none
LastIndexOf(s, c) ==
  IF \E i \in DOMAIN s : s[i] = c
    THEN CHOOSE i \in DOMAIN s : s[i] = c /\ \A j \in DOMAIN s : s[j] = c => j <= i
    ELSE 0

\* index of the first occurrence of character c in s, Len(s)+1 when there is none
FirstIndexOf(s, c) ==
  IF \E i \in DOMAIN s : s[i] = c
    THEN CHOOSE i \in DOMAIN s : s[i] = c /\ \A j \in DOMAIN s : s[j] = c => j >= i
    ELSE Len(s) + 1

-----------------------------------------------------------------------------
(* Node's path module (POSIX) *)

\* s.split('/'): the segments between separators, empty ones included
Split(s) ==
  LET split[t \in Seq(STRING)] ==
        LET i == FirstIndexOf(t, "/")
        IN  IF i > Len(t)
              THEN <<t>>
              ELSE <<SubSeq(t, 1, i - 1)>> \o split[SubSeq(t, i + 1, Len(t))]
  IN  split[s]

\* segs.join('/')
JoinSegs(segs) ==
  LET join[t \in Seq(Seq(STRING))] ==
        IF t = <<>> THEN <<>>
        ELSE IF Len(t) = 1 THEN t[1]
        ELSE t[1] \o <<"/">> \o join[Tail(t)]
  IN  join[segs]

\* path.normalize's segment walk: '' and '.' are dropped, '..' removes the
\* segment before it, or is kept when there is none and the path is relative
NormalizeString(segs, res, allowAboveRoot) ==
  LET walk[t \in Seq(Seq(STRING)), out \in Seq(Seq(STRING))] ==
        IF t = <<>> THEN out
        ELSE
          LET seg == Head(t)
              rest == Tail(t)
          IN  IF seg = <<>> \/ seg = <<".">>
                THEN walk[rest, out]
              ELSE IF seg = <<".", ".">>
                THEN IF out # <<>> /\ Last(out) # <<".", ".">>
                       THEN walk[rest, Front(out)]
                     ELSE IF allowAboveRoot
                       THEN walk[rest, Append(out, seg)]
                     ELSE walk[rest, out]
              ELSE walk[rest, Append(out, seg)]
  IN  walk[segs, res]

\* path.normalize(p)
Normalize(p) ==
  IF p = <<>> THEN <<".">>
  ELSE
    LET isAbsolute == p[1] = "/"
        trailingSeparator == Last(p) = "/"
        body == JoinSegs(NormalizeString(Split(p), <<>>, ~isAbsolute))
    IN  IF body = <<>>
          THEN IF isAbsolute THEN <<"/">>
               ELSE IF trailingSeparator THEN <<".", "/">> ELSE <<".">>
        ELSE (IF isAbsolute THEN <<"/">> ELSE <<>>)
             \o body
             \o (IF trailingSeparator THEN <<"/">> ELSE <<>>)

\* path.join(a, b)
PathJoin(a, b) ==
  IF a = <<>> /\ b = <<>> THEN <<".">>
  ELSE IF a = <<>> THEN Normalize(b)
  ELSE IF b = <<>> THEN Normalize(a)
  ELSE Normalize(a \o <<"/">> \o b)

\* path.extname(p): from the last '.' of the last path component, '' when
\* that component has no '.', starts with its only '.', or is '..'
ExtName(p) ==
  LET trim[s \in Seq(STRING)] == IF s # <<>> /\ Last(s) = "/" THEN trim[Front(s)] ELSE s
      ext[base \in Seq(STRING), dot \in Nat] ==
        IF dot = 0 THEN <<>>
        ELSE IF \A i \in 1..(dot - 1) : base[i] = "."
          THEN IF dot = 1 \/ base = <<".", ".">> THEN <<>>
               ELSE SubSeq(base, dot, Len(base))
        ELSE SubSeq(base, dot, Len(base))
      name[base \in Seq(STRING)] == ext[base, LastIndexOf(base, ".")]
      last[q \in Seq(STRING)] == name[SubSeq(q, LastIndexOf(q, "/") + 1, Len(q))]
  IN  last[trim[p]]

-----------------------------------------------------------------------------
(* String constants, the filesystem tree and the request paths *)

S_index_html == <<"i", "n", "d", "e", "x", ".", "h", "t", "m", "l">>
S_slash_index_html == <<"/", "i", "n", "d", "e", "x", ".", "h", "t", "m", "l">>
S_slash_editor_html == <<"/", "e", "d", "i", "t", "o", "r", ".", "h", "t", "m", "l">>
S_slash_fullscreen_html == <<"/", "f", "u", "l", "l", "s", "c", "r", "e", "e", "n", ".", "h", "t", "m", "l">>
S_editor == <<"e", "d", "i", "t", "o", "r">>
S_fullscreen == <<"f", "u", "l", "l", "s", "c", "r", "e", "e", "n">>
S_js_prefix == <<"/", "j", "s", "/">>
S_assets_prefix == <<"/", "s", "t", "a", "t", "i", "c", "/", "a", "s", "s", "e", "t", "s", "/">>
S_blocks_media_prefix == <<"/", "s", "t", "a", "t", "i", "c", "/", "b", "l", "o", "c", "k", "s", "-", "m", "e", "d", "i", "a", "/">>
Ext_html == <<".", "h", "t", "m", "l">>
Ext_js == <<".", "j", "s">>
Ext_png == <<".", "p", "n", "g">>
Sfx_gz == <<"g", "z">>
Sfx_br == <<"b", "r">>
Root_main_raw == <<"/", "w">>
Root_exp_raw == <<"/", "x", "/">>

InitialTree ==
  { [path |-> <<"/", "w">>, kind |-> "dir", mtime |-> 1000, data |-> 0],
    [path |-> <<"/", "w", "/", "i", "n", "d", "e", "x", ".", "h", "t", "m", "l">>, kind |-> "file", mtime |-> 2137, data |-> 2],
    [path |-> <<"/", "w", "/", "e", "d", "i", "t", "o", "r", ".", "h", "t", "m", "l">>, kind |-> "file", mtime |-> 3274, data |-> 3],
    [path |-> <<"/", "w", "/", "a", ".", "j", "s">>, kind |-> "file", mtime |-> 4411, data |-> 4],
    [path |-> <<"/", "w", "/", "a", ".", "j", "s", ".", "g", "z">>, kind |-> "file", mtime |-> 5548, data |-> 5],
    [path |-> <<"/", "w", "/", "a", ".", "j", "s", ".", "b", "r">>, kind |-> "file", mtime |-> 6685, data |-> 6],
    [path |-> <<"/", "w", "/", "p", ".", "p", "n", "g">>, kind |-> "file", mtime |-> 7822, data |-> 7],
    [path |-> <<"/", "w", "/", "n", ".", "b", "i", "n">>, kind |-> "file", mtime |-> 8959, data |-> 8],
    [path |-> <<"/", "w", "/", "j", "s">>, kind |-> "dir", mtime |-> 9096, data |-> 0],
    [path |-> <<"/", "w", "/", "j", "s", "/", "m", ".", "j", "s">>, kind |-> "file", mtime |-> 10233, data |-> 10],
    [path |-> <<"/", "w", "/", "J", "S">>, kind |-> "dir", mtime |-> 11370, data |-> 0],
    [path |-> <<"/", "w", "/", "J", "S", "/", "m", ".", "j", "s">>, kind |-> "file", mtime |-> 12507, data |-> 12],
    [path |-> <<"/", "w", "/", "d">>, kind |-> "dir", mtime |-> 13644, data |-> 0],
    [path |-> <<"/", "w", "/", "d", "/", "i", "n", "d", "e", "x", ".", "h", "t", "m", "l">>, kind |-> "file", mtime |-> 14781, data |-> 14],
    [path |-> <<"/", "w", "/", "e">>, kind |-> "dir", mtime |-> 15918, data |-> 0],
    [path |-> <<"/", "w", "/", "e", "/", "i", "n", "d", "e", "x", ".", "h", "t", "m", "l">>, kind |-> "dir", mtime |-> 16055, data |-> 0],
    [path |-> <<"/", "w", "/", "s", "t", "a", "t", "i", "c">>, kind |-> "dir", mtime |-> 17192, data |-> 0],
    [path |-> <<"/", "w", "/", "s", "t", "a", "t", "i", "c", "/", "a", "s", "s", "e", "t", "s">>, kind |-> "dir", mtime |-> 18329, data |-> 0],
    [path |-> <<"/", "w", "/", "s", "t", "a", "t", "i", "c", "/", "a", "s", "s", "e", "t", "s", "/", "i", ".", "p", "n", "g">>, kind |-> "file", mtime |-> 19466, data |-> 19],
    [path |-> <<"/", "w", "/", "s", "t", "a", "t", "i", "c", "/", "b", "l", "o", "c", "k", "s", "-", "m", "e", "d", "i", "a">>, kind |-> "dir", mtime |-> 20603, data |-> 0],
    [path |-> <<"/", "w", "/", "s", "t", "a", "t", "i", "c", "/", "b", "l", "o", "c", "k", "s", "-", "m", "e", "d", "i", "a", "/", "c", ".", "p", "n", "g">>, kind |-> "file", mtime |-> 21740, data |-> 21],
    [path |-> <<"/", "w", "-", "s">>, kind |-> "dir", mtime |-> 22877, data |-> 0],
    [path |-> <<"/", "w", "-", "s", "/", "k", ".", "j", "s">>, kind |-> "file", mtime |-> 23014, data |-> 23],
    [path |-> <<"/", "x">>, kind |-> "dir", mtime |-> 24151, data |-> 0],
    [path |-> <<"/", "x", "/", "i", "n", "d", "e", "x", ".", "h", "t", "m", "l">>, kind |-> "file", mtime |-> 25288, data |-> 25],
    [path |-> <<"/", "x", "/", "b">>, kind |-> "dir", mtime |-> 26425, data |-> 0],
    [path |-> <<"/", "x", "/", "b", "/", "i", "n", "d", "e", "x", ".", "h", "t", "m", "l">>, kind |-> "file", mtime |-> 27562, data |-> 27],
    [path |-> <<"/", "x", "/", "7">>, kind |-> "dir", mtime |-> 28699, data |-> 0],
    [path |-> <<"/", "x", "/", "7", "/", "i", "n", "d", "e", "x", ".", "h", "t", "m", "l">>, kind |-> "file", mtime |-> 29836, data |-> 29],
    [path |-> <<"/", "w", "/", "f">>, kind |-> "file", mtime |-> 30973, data |-> 30],
    [path |-> <<"/", "w", "/", "a", "_", "b", ".", "j", "s">>, kind |-> "file", mtime |-> 31110, data |-> 31],
    [path |-> <<"/", "w", "/", "q", ".", "J", "S">>, kind |-> "file", mtime |-> 32247, data |-> 32] }

SamplePaths ==
  { <<"/">>,
    <<"/", "7">>,
    <<"/", "7", "/">>,
    <<"/", "b", "/">>,
    <<"/", "b", "/", "3", "/">>,
    <<"/", "b", "/", "3">>,
    <<"/", "e", "d", "i", "t", "o", "r">>,
    <<"/", "E", "D", "I", "T", "O", "R", "/">>,
    <<"/", "1", "2", "/", "E", "d", "i", "t", "o", "r">>,
    <<"/", "f", "u", "l", "l", "s", "c", "r", "e", "e", "n">>,
    <<"/", "b", "/", "e", "d", "i", "t", "o", "r">>,
    <<"/", "a", ".", "j", "s">>,
    <<"/", "p", ".", "p", "n", "g">>,
    <<"/", "n", ".", "b", "i", "n">>,
    <<"/", "d">>,
    <<"/", "d", "/">>,
    <<"/", "e", "/">>,
    <<"/", "n", "o", ".", "p", "n", "g">>,
    <<"/", "i", "n", "d", "e", "x", ".", "h", "t", "m", "l">>,
    <<"/", "a", ".", "j", "s", "/">>,
    <<"/", "a", "_", "b", ".", "j", "s">>,
    <<"/", "j", "s", "/", "m", ".", "j", "s">>,
    <<"/", "J", "S", "/", "m", ".", "j", "s">>,
    <<"/", "j", "s", "/", "n", "o", ".", "j", "s">>,
    <<"/", "s", "t", "a", "t", "i", "c", "/", "a", "s", "s", "e", "t", "s", "/", "i", ".", "p", "n", "g">>,
    <<"/", "s", "t", "a", "t", "i", "c", "/", "a", "s", "s", "e", "t", "s", "/", "n", "o", ".", "p", "n", "g">>,
    <<"/", "s", "t", "a", "t", "i", "c", "/", "b", "l", "o", "c", "k", "s", "-", "m", "e", "d", "i", "a", "/", "c", ".", "p", "n", "g">>,
    <<"/", "s", "t", "a", "t", "i", "c", "/", "b", "l", "o", "c", "k", "s", "-", "m", "e", "d", "i", "a", "/", "n", "o", ".", "p", "n", "g">>,
    <<"/", "%", "2", "e", "%", "2", "e", "/", "w", "-", "s", "/", "k", ".", "j", "s">>,
    <<"/", "j", "s", "/", ".", ".", "/", "a", ".", "j", "s">>,
    <<"/", "3", "/", "F", "u", "l", "l", "S", "c", "r", "e", "e", "n", "/">>,
    <<"/", "b", "/", "i", "n", "d", "e", "x", ".", "h", "t", "m", "l">>,
    <<"/", "f">>,
    <<"/", "q", ".", "J", "S">> }

Deletable ==
  { <<"/", "w", "/", "a", ".", "j", "s">>,
    <<"/", "w", "/", "a", ".", "j", "s", ".", "g", "z">>,
    <<"/", "w", "/", "a", ".", "j", "s", ".", "b", "r">>,
    <<"/", "w", "/", "d", "/", "i", "n", "d", "e", "x", ".", "h", "t", "m", "l">>,
    <<"/", "w", "/", "j", "s", "/", "m", ".", "j", "s">> }

GenSegs ==
  { <<".", ".">>,
    <<".">>,
    <<"w", "-", "s">>,
    <<"k", ".", "j", "s">>,
    <<"w">> }

-----------------------------------------------------------------------------
(* Configuration tables *)

\* require('./hosts') as written in the configuration file
HostsConfig ==
  [h \in {"main.test", "exp.test"} |->
     IF h = "main.test"
       THEN [root |-> Root_main_raw, branches |-> FALSE]
       ELSE [root |-> Root_exp_raw, branches |-> TRUE]]

\* host.root = path.join(host.root, '/')
NormalizeRoot(root) == PathJoin(root, <<"/">>)

\* the host table after the startup loop
hosts == [h \in DOMAIN HostsConfig |-> [HostsConfig[h] EXCEPT !.root = NormalizeRoot(@)]]

\* require('./types') as written in the configuration file
FileTypesConfig ==
  (Ext_html :> [type |-> "text/html",
                encodings |-> <<[name |-> "gzip", extension |-> Sfx_gz],
                                [name |-> "br", extension |-> Sfx_br]>>])
  @@ (Ext_js :> [type |-> "text/javascript",
                 encodings |-> <<[name |-> "gzip", extension |-> Sfx_gz],
                                 [name |-> "br", extension |-> Sfx_br]>>])
  @@ (Ext_png :> [type |-> "image/png"])

\* if (!fileType.encodings) fileType.encodings = []
DefaultEncodings(fileType) ==
  IF "encodings" \in DOMAIN fileType
    THEN fileType
    ELSE [type |-> fileType.type, encodings |-> <<>>]

\* the file type table after the startup loop
fileTypes == [e \in DOMAIN FileTypesConfig |-> DefaultEncodings(FileTypesConfig[e])]

-----------------------------------------------------------------------------
(* The filesystem *)

FsPaths == {e.path : e \in InitialTree}

InitFs ==
  [p \in FsPaths |->
     LET e == CHOOSE x \in InitialTree : x.path = p
     IN  [kind |-> e.kind, mtime |-> e.mtime, data |-> e.data]]

\* a path with its one trailing separator removed
Untrailed(p) == IF Len(p) > 1 /\ Last(p) = "/" THEN Front(p) ELSE p

\* fs.stat(p): throws (ok = FALSE) when nothing is there, or when p names a
\* regular file with a trailing separator
statFile(f, p) ==
  LET q == Untrailed(p)
  IN  IF q \in DOMAIN f /\ f[q].kind # "none" /\ ~(q # p /\ f[q].kind = "file")
        THEN [ok |-> TRUE, kind |-> f[q].kind, mtime |-> f[q].mtime]
        ELSE [ok |-> FALSE, kind |-> "none", mtime |-> 0]

\* fs.readFile(p): throws (ok = FALSE) unless p names a regular file
readFile(f, p) ==
  IF p \in DOMAIN f /\ f[p].kind = "file"
    THEN [ok |-> TRUE, data |-> f[p].data]
    ELSE [ok |-> FALSE, data |-> 0]

-----------------------------------------------------------------------------
(* Pure functions of the pipeline *)

\* safeJoin without its containment check
safeJoin_Unchecked(root, file) == PathJoin(root, file)

\* const safeJoin = (root, file) => ...; NoString is null
safeJoin(root, file) ==
  LET newPath == PathJoin(root, file)
  IN  IF ~StartsWith(newPath, root) THEN NoString ELSE newPath

\* [\w\d_-]
IsBranchChar(c) == c \in Letters \cup Digits \cup {"_", "-"}

\* path.match(/^\/([\w\d_-]+)\//)[1], NoString when there is no match
BranchName(path) ==
  LET match[first \in STRING, rest \in Seq(STRING), end \in Nat] ==
        IF first = "/" /\ end > 1 /\ rest[end] = "/"
          THEN SubSeq(rest, 1, end - 1)
          ELSE NoString
      segment[rest \in Seq(STRING)] ==
        match[path[1], rest,
              IF \E i \in DOMAIN rest : ~IsBranchChar(rest[i])
                THEN CHOOSE i \in DOMAIN rest :
                       /\ ~IsBranchChar(rest[i])
                       /\ \A j \in 1..(i - 1) : IsBranchChar(rest[j])
                ELSE 0]
  IN  IF path = <<>> THEN NoString ELSE segment[Tail(path)]

\* /^\/(?:\d+\/?)?$/.test(path)
IsIndexRoute(path) ==
  /\ path # <<>>
  /\ path[1] = "/"
  /\ LET rest == Tail(path)
         digits == IF rest # <<>> /\ Last(rest) = "/" THEN Front(rest) ELSE rest
     IN  rest = <<>> \/ (digits # <<>> /\ AllDigits(digits))

\* the word routes without the i flag
IsWordRoute_CaseSensitive(path, word) ==
  /\ path # <<>>
  /\ path[1] = "/"
  /\ LET rest == Tail(path)
         r == IF rest # <<>> /\ Last(rest) = "/" THEN Front(rest) ELSE rest
         n == Len(r)
         k == Len(word)
     IN  /\ n >= k
         /\ SubSeq(r, n - k + 1, n) = word
         /\ \/ n = k
            \/ /\ n >= k + 2
               /\ r[n - k] = "/"
               /\ AllDigits(SubSeq(r, 1, n - k - 1))

\* /^\/(?:\d+\/)?<word>\/?$/i.test(path), for word 'editor' and 'fullscreen'
IsWordRoute(path, word) ==
  /\ path # <<>>
  /\ path[1] = "/"
  /\ LET rest == Tail(path)
         r == IF rest # <<>> /\ Last(rest) = "/" THEN Front(rest) ELSE rest
         n == Len(r)
         k == Len(word)
     IN  /\ n >= k
         /\ ToLower(SubSeq(r, n - k + 1, n)) = word
         /\ \/ n = k
            \/ /\ n >= k + 2
               /\ r[n - k] = "/"
               /\ AllDigits(SubSeq(r, 1, n - k - 1))

\* a mapping that forgets to put the branch prefix back
LogicalPath_NoPrefix(branches, reqPath) ==
  LET branchName == IF branches THEN BranchName(reqPath) ELSE NoString
      prefix == IF branchName # NoString THEN <<"/">> \o branchName ELSE <<>>
      path == SubSeq(reqPath, Len(prefix) + 1, Len(reqPath))
  IN  IF IsIndexRoute(path) THEN S_slash_index_html
      ELSE IF IsWordRoute(path, S_editor) THEN S_slash_editor_html
      ELSE IF IsWordRoute(path, S_fullscreen) THEN S_slash_fullscreen_html
      ELSE NoString

\* a mapping that leaves the branch-stripped path as the logical path when no
\* alias matches
LogicalPath_StrippedDefault(branches, reqPath) ==
  LET branchName == IF branches THEN BranchName(reqPath) ELSE NoString
      prefix == IF branchName # NoString THEN <<"/">> \o branchName ELSE <<>>
      path == SubSeq(reqPath, Len(prefix) + 1, Len(reqPath))
  IN  IF IsIndexRoute(path) THEN prefix \o S_slash_index_html
      ELSE IF IsWordRoute(path, S_editor) THEN prefix \o S_slash_editor_html
      ELSE IF IsWordRoute(path, S_fullscreen) THEN prefix \o S_slash_fullscreen_html
      ELSE path

\* the host middleware's mapping of req.path to req.logicalPath; NoString
\* when no alias matches and req.logicalPath stays undefined
LogicalPath(branches, reqPath) ==
  LET alias[prefix \in Seq(STRING), path \in Seq(STRING)] ==
        IF IsIndexRoute(path) THEN prefix \o S_slash_index_html
        ELSE IF IsWordRoute(path, S_editor) THEN prefix \o S_slash_editor_html
        ELSE IF IsWordRoute(path, S_fullscreen) THEN prefix \o S_slash_fullscreen_html
        ELSE NoString
      strip[branchName \in Seq(STRING)] ==
        LET prefix == IF branchName # NoString THEN <<"/">> \o branchName ELSE <<>>
        IN  alias[prefix, SubSeq(reqPath, Len(prefix) + 1, Len(reqPath))]
  IN  strip[IF branches THEN BranchName(reqPath) ELSE NoString]

\* /[^a-zA-Z0-9.\-\/~]/.test(pathName)
HasInvalidCharacter(pathName) ==
  \E i \in DOMAIN pathName :
     pathName[i] \notin Letters \cup Digits \cup {".", "-", "/", "~"}

\* a lookup that falls back to an entry of the table for unknown extensions
getFileType_Default(file) ==
  LET extensionName == ExtName(file)
  IN  IF extensionName \notin DOMAIN fileTypes THEN Ext_png ELSE extensionName

\* getFileType(file): the key of the file type table, NoString for null
getFileType(file) ==
  LET extensionName == ExtName(file)
  IN  IF extensionName \notin DOMAIN fileTypes THEN NoString ELSE extensionName

\* a loop over the client's encodings, in the client's order of preference
EncodingsToTry_ClientOrder(acceptedEncodings, fileEncodings) ==
  LET Configured(name) == \E i \in DOMAIN fileEncodings : fileEncodings[i].name = name
      names == SelectSeq(acceptedEncodings, Configured)
  IN  [i \in DOMAIN names |->
         fileEncodings[CHOOSE k \in DOMAIN fileEncodings : fileEncodings[k].name = names[i]]]

\* chooseEncoding's loop: the configured encodings, in configured order,
\* that the client accepts; each is then looked for on disk in turn
EncodingsToTry(acceptedEncodings, fileEncodings) ==
  LET Accepted(encoding) == encoding.name \in Range(acceptedEncodings)
  IN  SelectSeq(fileEncodings, Accepted)

\* `${filePath}.${encoding.extension}`
EncodedFilePath(filePath, encoding) == filePath \o <<".">> \o encoding.extension

\* Date.prototype.toUTCString(): an HTTP date has whole seconds, the
\* modification time has milliseconds
toUTCString(mtime) == mtime \div 1000

-----------------------------------------------------------------------------
(* The handler stack, in registration order, and express's dispatch *)

HandlerOrder == <<"host", "js", "assets", "blocksMedia", "main", "notFound">>

\* app.set('case sensitive routing', false): a route path matches in any case
RouteMatches(handler, method, path) ==
  CASE handler = "host" -> TRUE
    [] handler = "js" -> method = "GET" /\ StartsWith(ToLower(path), S_js_prefix)
    [] handler = "assets" -> method = "GET" /\ StartsWith(ToLower(path), S_assets_prefix)
    [] handler = "blocksMedia" ->
         method = "GET" /\ StartsWith(ToLower(path), S_blocks_media_prefix)
    [] handler = "main" -> method = "GET"
    [] handler = "notFound" -> TRUE

\* next(): the first handler registered after `handler` that matches
NextHandler(handler, method, path) ==
  LET at == CHOOSE i \in DOMAIN HandlerOrder : HandlerOrder[i] = handler
      first[m \in STRING, p \in Seq(STRING)] ==
        CHOOSE k \in (at + 1)..Len(HandlerOrder) :
          /\ RouteMatches(HandlerOrder[k], m, p)
          /\ \A l \in (at + 1)..(k - 1) : ~RouteMatches(HandlerOrder[l], m, p)
  IN  HandlerOrder[first[method, path]]

-----------------------------------------------------------------------------
(* Requests *)

Reqs == {"r1"}

HostNames == {"main.test", "exp.test", "evil.example.com", "MAIN.TEST"}

Methods == {"GET", "POST"}

\* req.acceptsEncodings(): the encodings the client accepts, in the client's
\* order of preference
AcceptLists ==
  { <<"gzip", "br", "identity">>,
    <<"br", "gzip", "identity">>,
    <<"br", "identity">>,
    <<"gzip", "identity">>,
    <<"identity">> }

\* request paths made of up to MaxSegs segments that try to leave the root
GenPaths ==
  { <<"/">> \o JoinSegs(s) : s \in UNION {[1..n -> GenSegs] : n \in 1..MaxSegs} }

NoHeaders ==
  [ContentType |-> "", LastModified |-> -1, ContentEncoding |-> "",
   Vary |-> "", CacheControl |-> ""]

NoBody == [text |-> "", data |-> 0]

IdleRequest ==
  [pc |-> "idle", hostname |-> "", method |-> "", path |-> NoString,
   acceptedEncodings |-> <<>>, logicalPath |-> NoString, root |-> NoString,
   filePath |-> NoString, fileLastModified |-> -1, fileType |-> NoString,
   toTry |-> <<>>, contentEncoding |-> "null",
   headers |-> NoHeaders, statusCode |-> 200, sent |-> 0, status |-> 0,
   body |-> NoBody, ran |-> <<>>, log |-> <<>>]

Init ==
  /\ fs = InitFs
  /\ unlinks = 0
  /\ rq = [r \in Reqs |-> IdleRequest]

\* res.send(body): the response goes out with the status and headers set so far
Send(q, body) ==
  [q EXCEPT !.pc = "done", !.sent = @ + 1, !.status = q.statusCode, !.body = body]

\* next(): control passes to the next matching handler
Next_(q, handler) ==
  [q EXCEPT !.pc = NextHandler(handler, q.method, q.path)]

\* a request arrives
NewRequest(r) ==
  /\ rq[r].pc = "idle"
  /\ \E h \in HostNames, m \in Methods, a \in AcceptLists, p \in SamplePaths \cup GenPaths :
       /\ p \in GenPaths \ SamplePaths => (m = "GET" /\ a = <<"gzip", "br", "identity">>)
       /\ rq' = [rq EXCEPT ![r] =
                   [IdleRequest EXCEPT !.pc = "host", !.hostname = h, !.method = m,
                                       !.path = p, !.acceptedEncodings = a]]
  /\ UNCHANGED <<fs, unlinks>>

\* a host lookup that ignores letter case
LookupHost_AnyCase(hostname) ==
  LET name == IF hostname = "MAIN.TEST" THEN "main.test" ELSE hostname
  IN  IF name \in DOMAIN hosts
        THEN [known |-> TRUE, root |-> hosts[name].root, branches |-> hosts[name].branches]
        ELSE [known |-> FALSE, root |-> NoString, branches |-> FALSE]

\* hosts.hasOwnProperty(hostname) and hosts[hostname]: an exact match of the
\* host name against the keys of the table
LookupHost(hostname) ==
  IF hostname \in DOMAIN hosts
    THEN [known |-> TRUE, root |-> hosts[hostname].root,
          branches |-> hosts[hostname].branches]
    ELSE [known |-> FALSE, root |-> NoString, branches |-> FALSE]

\* a host middleware that keeps the root in one place for all requests: every
\* request in flight sees the root written last
HostMiddleware_SharedRoot(r) ==
  LET q == [rq[r] EXCEPT !.ran = Append(@, "host")]
  IN  /\ rq[r].pc = "host"
      /\ IF q.hostname \notin DOMAIN hosts
           THEN rq' = [rq EXCEPT ![r] =
                         Send([q EXCEPT !.statusCode = 400,
                                        !.headers.ContentType = "text/plain"],
                              [text |-> "Invalid Host", data |-> 0])]
           ELSE LET host == hosts[q.hostname]
                IN  rq' = [x \in DOMAIN rq |->
                             IF x = r
                               THEN Next_([q EXCEPT !.logicalPath = LogicalPath(host.branches, q.path),
                                                   !.root = host.root],
                                          "host")
                             ELSE IF rq[x].root # NoString /\ rq[x].pc # "done"
                               THEN [rq[x] EXCEPT !.root = host.root]
                             ELSE rq[x]]
      /\ UNCHANGED <<fs, unlinks>>

\* a host middleware without the return after the 400: the request goes on
\* down the pipeline after its response was sent
HostMiddleware_NoReturn(r) ==
  LET q == [rq[r] EXCEPT !.ran = Append(@, "host")]
  IN  /\ rq[r].pc = "host"
      /\ IF q.hostname \notin DOMAIN hosts
           THEN rq' = [rq EXCEPT ![r] =
                         Next_(Send([q EXCEPT !.statusCode = 400,
                                              !.headers.ContentType = "text/plain"],
                                    [text |-> "Invalid Host", data |-> 0]),
                               "host")]
           ELSE LET host == hosts[q.hostname]
                IN  rq' = [rq EXCEPT ![r] =
                             Next_([q EXCEPT !.logicalPath = LogicalPath(host.branches, q.path),
                                             !.root = host.root],
                                   "host")]
      /\ UNCHANGED <<fs, unlinks>>

\* app.use((req, res, next) => ...): host lookup and logical path mapping
HostMiddleware(r) ==
  LET q == [rq[r] EXCEPT !.ran = Append(@, "host")]
      host == LookupHost(q.hostname)
  IN  /\ rq[r].pc = "host"
      /\ rq' = [rq EXCEPT ![r] =
                  IF ~host.known
                    THEN Send([q EXCEPT !.statusCode = 400,
                                        !.headers.ContentType = "text/plain"],
                              [text |-> "Invalid Host", data |-> 0])
                    ELSE Next_([q EXCEPT !.logicalPath = LogicalPath(host.branches, q.path),
                                         !.root = host.root],
                               "host")]
      /\ UNCHANGED <<fs, unlinks>>

\* app.get('/js/*', ...)
JsHandler(r) ==
  /\ rq[r].pc = "js"
  /\ rq' = [rq EXCEPT ![r] =
              Next_([@ EXCEPT !.ran = Append(@, "js"),
                              !.headers.CacheControl = "public, max-age=315360000, immutable"],
                    "js")]
  /\ UNCHANGED <<fs, unlinks>>

\* app.get('/static/assets/*', ...)
AssetsHandler(r) ==
  /\ rq[r].pc = "assets"
  /\ rq' = [rq EXCEPT ![r] =
              Next_([@ EXCEPT !.ran = Append(@, "assets"),
                              !.headers.CacheControl = "public, max-age=315360000, immutable"],
                    "assets")]
  /\ UNCHANGED <<fs, unlinks>>

\* app.get('/static/blocks-media/*', ...)
BlocksMediaHandler(r) ==
  /\ rq[r].pc = "blocksMedia"
  /\ rq' = [rq EXCEPT ![r] =
              Next_([@ EXCEPT !.ran = Append(@, "blocksMedia"),
                              !.headers.CacheControl = "public, max-age=3600, immutable"],
                    "blocksMedia")]
  /\ UNCHANGED <<fs, unlinks>>

\* app.get('/*', ...) up to its first await: character filter and safeJoin
MainHandler(r) ==
  LET q == [rq[r] EXCEPT !.ran = Append(@, "main")]
      pathName == IF q.logicalPath # NoString THEN q.logicalPath ELSE q.path
      requestPathName == safeJoin(q.root, pathName)
  IN  /\ rq[r].pc = "main"
      /\ rq' = [rq EXCEPT ![r] =
                  IF HasInvalidCharacter(pathName) THEN Next_(q, "main")
                  ELSE IF requestPathName = NoString THEN Next_(q, "main")
                  ELSE [q EXCEPT !.pc = "findFile", !.filePath = requestPathName]]
      /\ UNCHANGED <<fs, unlinks>>

\* the main handler from findFile's result to its next await: lines 169-192.
\* found is findFile's result, ok = FALSE for null; destructuring null throws,
\* and asyncHandler passes the exception to the error handler
AfterFindFile(q, found) ==
  IF ~found.ok THEN [q EXCEPT !.pc = "error"]
  ELSE
    LET fileType == getFileType(found.path)
        q1 == [q EXCEPT !.filePath = found.path,
                        !.fileLastModified = found.mtime,
                        !.fileType = fileType]
    IN  IF fileType = NoString THEN Next_(q1, "main")
        ELSE LET toTry == EncodingsToTry(q.acceptedEncodings, fileTypes[fileType].encodings)
             IN  IF toTry = <<>>
                   THEN [q1 EXCEPT !.pc = "readFile"]
                   ELSE [q1 EXCEPT !.pc = "chooseEncoding", !.toTry = toTry]

NotFound == [ok |-> FALSE, path |-> NoString, mtime |-> 0]

\* findFile: stat of the candidate
FindFileStat(r) ==
  LET file == rq[r].filePath
      stat == statFile(fs, file)
      q == [rq[r] EXCEPT !.log = Append(@, [op |-> "stat", path |-> file,
                                             ok |-> stat.ok, kind |-> stat.kind])]
  IN  /\ rq[r].pc = "findFile"
      /\ rq' = [rq EXCEPT ![r] =
                  IF ~stat.ok THEN AfterFindFile(q, NotFound)
                  ELSE IF stat.kind = "dir"
                    THEN [q EXCEPT !.pc = "findIndex",
                                   !.filePath = PathJoin(file, S_index_html)]
                  ELSE IF stat.kind = "file"
                    THEN AfterFindFile(q, [ok |-> TRUE, path |-> file, mtime |-> stat.mtime])
                  ELSE AfterFindFile(q, NotFound)]
      /\ UNCHANGED <<fs, unlinks>>

\* findFile returning the directory's stat with the index file's path
FindIndexStat_DirMtime(r) ==
  LET indexFile == rq[r].filePath
      indexStat == statFile(fs, indexFile)
      dirStat == statFile(fs, SubSeq(indexFile, 1, Len(indexFile) - Len(S_slash_index_html)))
      q == [rq[r] EXCEPT !.log = Append(@, [op |-> "stat", path |-> indexFile,
                                             ok |-> indexStat.ok, kind |-> indexStat.kind])]
  IN  /\ rq[r].pc = "findIndex"
      /\ rq' = [rq EXCEPT ![r] =
                  IF indexStat.ok /\ indexStat.kind = "file"
                    THEN AfterFindFile(q, [ok |-> TRUE, path |-> indexFile,
                                           mtime |-> dirStat.mtime])
                    ELSE AfterFindFile(q, NotFound)]
      /\ UNCHANGED <<fs, unlinks>>

\* findFile: stat of the directory's index.html
FindIndexStat(r) ==
  LET indexFile == rq[r].filePath
      indexStat == statFile(fs, indexFile)
      q == [rq[r] EXCEPT !.log = Append(@, [op |-> "stat", path |-> indexFile,
                                             ok |-> indexStat.ok, kind |-> indexStat.kind])]
  IN  /\ rq[r].pc = "findIndex"
      /\ rq' = [rq EXCEPT ![r] =
                  IF indexStat.ok /\ indexStat.kind = "file"
                    THEN AfterFindFile(q, [ok |-> TRUE, path |-> indexFile,
                                           mtime |-> indexStat.mtime])
                    ELSE AfterFindFile(q, NotFound)]
      /\ UNCHANGED <<fs, unlinks>>

\* chooseEncoding: stat of the next accepted encoding's file
ChooseEncodingStat(r) ==
  LET encoding == Head(rq[r].toTry)
      encodedFilePath == EncodedFilePath(rq[r].filePath, encoding)
      encodedFileStat == statFile(fs, encodedFilePath)
      q == [rq[r] EXCEPT !.log = Append(@, [op |-> "stat", path |-> encodedFilePath,
                                             ok |-> encodedFileStat.ok,
                                             kind |-> encodedFileStat.kind]),
                         !.toTry = Tail(@)]
  IN  /\ rq[r].pc = "chooseEncoding"
      /\ rq' = [rq EXCEPT ![r] =
                  IF encodedFileStat.ok /\ encodedFileStat.kind = "file"
                    THEN [q EXCEPT !.pc = "readFile", !.filePath = encodedFilePath,
                                   !.contentEncoding = encoding.name]
                  ELSE IF q.toTry = <<>> THEN [q EXCEPT !.pc = "readFile"]
                  ELSE q]
      /\ UNCHANGED <<fs, unlinks>>

\* headers without Content-Encoding
ComposeHeaders_NoContentEncoding(q) ==
  LET fileType == fileTypes[q.fileType]
  IN  [ContentType |-> fileType.type,
       LastModified |-> toUTCString(q.fileLastModified),
       ContentEncoding |-> q.headers.ContentEncoding,
       Vary |-> IF Len(fileType.encodings) > 0 THEN "Accept-Encoding" ELSE q.headers.Vary,
       CacheControl |-> IF q.headers.CacheControl = "" THEN "no-cache"
                        ELSE q.headers.CacheControl]

\* headers with Vary only when an encoded variant is sent
ComposeHeaders_VaryIfEncoded(q) ==
  LET fileType == fileTypes[q.fileType]
  IN  [ContentType |-> fileType.type,
       LastModified |-> toUTCString(q.fileLastModified),
       ContentEncoding |-> IF q.contentEncoding # "null" THEN q.contentEncoding
                           ELSE q.headers.ContentEncoding,
       Vary |-> IF q.contentEncoding # "null" THEN "Accept-Encoding" ELSE q.headers.Vary,
       CacheControl |-> IF q.headers.CacheControl = "" THEN "no-cache"
                        ELSE q.headers.CacheControl]

\* headers with Cache-Control overwritten
ComposeHeaders_OverwriteCacheControl(q) ==
  LET fileType == fileTypes[q.fileType]
  IN  [ContentType |-> fileType.type,
       LastModified |-> toUTCString(q.fileLastModified),
       ContentEncoding |-> IF q.contentEncoding # "null" THEN q.contentEncoding
                           ELSE q.headers.ContentEncoding,
       Vary |-> IF Len(fileType.encodings) > 0 THEN "Accept-Encoding" ELSE q.headers.Vary,
       CacheControl |-> "no-cache"]

\* the headers with the modification time of the file that is read
ComposeHeaders_VariantMtime(q) ==
  LET fileType == fileTypes[q.fileType]
  IN  [ContentType |-> fileType.type,
       LastModified |-> toUTCString(InitFs[q.filePath].mtime),
       ContentEncoding |-> IF q.contentEncoding # "null" THEN q.contentEncoding
                           ELSE q.headers.ContentEncoding,
       Vary |-> IF Len(fileType.encodings) > 0 THEN "Accept-Encoding" ELSE q.headers.Vary,
       CacheControl |-> IF q.headers.CacheControl = "" THEN "no-cache"
                        ELSE q.headers.CacheControl]

\* the headers of a successful response: lines 208-221
ComposeHeaders(q) ==
  LET fileType == fileTypes[q.fileType]
  IN  [ContentType |-> fileType.type,
       LastModified |-> toUTCString(q.fileLastModified),
       ContentEncoding |-> IF q.contentEncoding # "null" THEN q.contentEncoding
                           ELSE q.headers.ContentEncoding,
       Vary |-> IF Len(fileType.encodings) > 0 THEN "Accept-Encoding" ELSE q.headers.Vary,
       CacheControl |-> IF q.headers.CacheControl = "" THEN "no-cache"
                        ELSE q.headers.CacheControl]

\* readFile(filePath), then the headers and res.send(contents)
ReadFile(r) ==
  LET contents == readFile(fs, rq[r].filePath)
      q == [rq[r] EXCEPT !.log = Append(@, [op |-> "read", path |-> rq[r].filePath,
                                             ok |-> contents.ok,
                                             kind |-> IF contents.ok THEN "file" ELSE "none"])]
  IN  /\ rq[r].pc = "readFile"
      /\ rq' = [rq EXCEPT ![r] =
                  IF ~contents.ok THEN Next_(q, "main")
                  ELSE Send([q EXCEPT !.headers = ComposeHeaders(q)],
                            [text |-> "", data |-> contents.data])]
      /\ UNCHANGED <<fs, unlinks>>

\* app.use((req, res) => ...): the 404 handler
NotFoundHandler(r) ==
  /\ rq[r].pc = "notFound"
  /\ rq' = [rq EXCEPT ![r] =
              Send([@ EXCEPT !.ran = Append(@, "notFound"), !.statusCode = 404,
                             !.headers.ContentType = "text/plain"],
                   [text |-> "404 Not Found", data |-> 0])]
  /\ UNCHANGED <<fs, unlinks>>

\* app.use((err, req, res, next) => ...): the 500 handler
ErrorHandler(r) ==
  /\ rq[r].pc = "error"
  /\ rq' = [rq EXCEPT ![r] =
              Send([@ EXCEPT !.ran = Append(@, "error"), !.statusCode = 500,
                             !.headers.ContentType = "text/plain"],
                   [text |-> "Internal server error", data |-> 0])]
  /\ UNCHANGED <<fs, unlinks>>

\* another process deletes a file
Unlink ==
  /\ unlinks < MaxUnlinks
  /\ \E p \in Deletable :
       /\ fs[p].kind = "file"
       /\ fs' = [fs EXCEPT ![p].kind = "none"]
  /\ unlinks' = unlinks + 1
  /\ UNCHANGED rq

Next ==
  \/ \E r \in Reqs :
       \/ NewRequest(r)
       \/ HostMiddleware(r)
       \/ JsHandler(r)
       \/ AssetsHandler(r)
       \/ BlocksMediaHandler(r)
       \/ MainHandler(r)
       \/ FindFileStat(r)
       \/ FindIndexStat(r)
       \/ ChooseEncodingStat(r)
       \/ ReadFile(r)
       \/ NotFoundHandler(r)
       \/ ErrorHandler(r)
  \/ Unlink

Spec == Init /\ [][Next]_vars

\* one step of request r after its arrival: a handler runs, or a stat or read
\* call completes
RequestStep(r) ==
  \/ HostMiddleware(r)
  \/ JsHandler(r)
  \/ AssetsHandler(r)
  \/ BlocksMediaHandler(r)
  \/ MainHandler(r)
  \/ FindFileStat(r)
  \/ FindIndexStat(r)
  \/ ChooseEncodingStat(r)
  \/ ReadFile(r)
  \/ NotFoundHandler(r)
  \/ ErrorHandler(r)

\* requests that between them take every way through the pipeline: unknown
\* host, alias, each path-prefix handler, character filter, safeJoin, missing
\* file, directory, unsupported type, variants and base file
LiveRequests ==
  { [hostname |-> h, method |-> "GET", path |-> p, acceptedEncodings |-> a] :
      h \in {"main.test", "exp.test"},
      p \in { <<"/">>,
              <<"/", "a", ".", "j", "s">>,
              <<"/", "d">>,
              <<"/", "n", ".", "b", "i", "n">>,
              <<"/", "a", "_", "b", ".", "j", "s">>,
              <<"/", ".", ".", "/", "w", "-", "s", "/", "k", ".", "j", "s">>,
              S_js_prefix \o <<"m", ".", "j", "s">>,
              S_assets_prefix \o <<"i", ".", "p", "n", "g">>,
              S_blocks_media_prefix \o <<"c", ".", "p", "n", "g">> },
      a \in {<<"gzip", "br", "identity">>, <<"identity">>} }
  \cup
  { [hostname |-> "evil.example.com", method |-> "GET",
     path |-> <<"/", "a", ".", "j", "s">>, acceptedEncodings |-> <<"identity">>],
    [hostname |-> "main.test", method |-> "POST",
     path |-> <<"/", "a", ".", "j", "s">>, acceptedEncodings |-> <<"identity">>] }

\* a request arrives
NewRequestLive(r) ==
  /\ rq[r].pc = "idle"
  /\ \E c \in LiveRequests :
       rq' = [rq EXCEPT ![r] =
                [IdleRequest EXCEPT !.pc = "host", !.hostname = c.hostname,
                                    !.method = c.method, !.path = c.path,
                                    !.acceptedEncodings = c.acceptedEncodings]]
  /\ UNCHANGED <<fs, unlinks>>

NextLive ==
  \/ \E r \in Reqs : NewRequestLive(r) \/ RequestStep(r)
  \/ Unlink

\* the event loop runs every handler that is due, and every stat and read
\* call completes
SpecLive == Init /\ [][NextLive]_vars /\ \A r \in Reqs : WF_vars(RequestStep(r))

-----------------------------------------------------------------------------
(* Several requests in flight on a filesystem that does not change *)

ReqsConc == {"r1", "r2", "r3"}

\* requests for the hosts of the table and for an unknown host, the same path
\* on both hosts among them
ConcRequests ==
  { [hostname |-> "main.test", path |-> <<"/", "a", ".", "j", "s">>],
    [hostname |-> "exp.test", path |-> <<"/", "a", ".", "j", "s">>],
    [hostname |-> "main.test", path |-> <<"/", "d">>],
    [hostname |-> "exp.test", path |-> <<"/", "b", "/">>],
    [hostname |-> "main.test", path |-> <<"/", "n", ".", "b", "i", "n">>],
    [hostname |-> "main.test", path |-> S_js_prefix \o <<"m", ".", "j", "s">>],
    [hostname |-> "main.test", path |-> S_assets_prefix \o <<"i", ".", "p", "n", "g">>],
    [hostname |-> "main.test", path |-> S_blocks_media_prefix \o <<"c", ".", "p", "n", "g">>],
    [hostname |-> "evil.example.com", path |-> <<"/", "a", ".", "j", "s">>] }

InitConc ==
  /\ fs = InitFs
  /\ unlinks = 0
  /\ rq = [r \in ReqsConc |-> IdleRequest]

\* a request arrives while others are in flight
NewRequestConc(r) ==
  /\ rq[r].pc = "idle"
  /\ \E c \in ConcRequests :
       rq' = [rq EXCEPT ![r] =
                [IdleRequest EXCEPT !.pc = "host", !.hostname = c.hostname,
                                    !.method = "GET", !.path = c.path,
                                    !.acceptedEncodings = <<"br", "gzip", "identity">>]]
  /\ UNCHANGED <<fs, unlinks>>

NextConc ==
  \E r \in ReqsConc :
     \/ NewRequestConc(r)
     \/ HostMiddleware(r)
     \/ JsHandler(r)
     \/ AssetsHandler(r)
     \/ BlocksMediaHandler(r)
     \/ MainHandler(r)
     \/ FindFileStat(r)
     \/ FindIndexStat(r)
     \/ ChooseEncodingStat(r)
     \/ ReadFile(r)
     \/ NotFoundHandler(r)
     \/ ErrorHandler(r)

SpecConc == InitConc /\ [][NextConc]_vars

-----------------------------------------------------------------------------
(* Properties *)

\* the path the main handler looks up: req.logicalPath || req.path
PathNameOf(q) == IF q.logicalPath # NoString THEN q.logicalPath ELSE q.path

\* the request has passed the host middleware on a known host
OnKnownHost(q) == q.root # NoString

\* the segments of root followed by pathName, with '.' and '..' resolved, do
\* not stay below the segments of root
LeavesRoot(root, pathName) ==
  LET rootSegs == NormalizeString(Split(root), <<>>, FALSE)
      allSegs == NormalizeString(Split(root \o pathName), <<>>, FALSE)
  IN  ~(Len(allSegs) >= Len(rootSegs) /\ SubSeq(allSegs, 1, Len(rootSegs)) = rootSegs)

\* C1: every host root ends in exactly one separator, every path the
\* pipeline stats or reads has the request's root (with that separator) as a
\* prefix, and a path that leaves the root, or carries a percent-encoded
\* segment, is answered without any filesystem access.
C1_AccessesStayUnderRoot ==
  \A r \in Reqs :
    LET q == rq[r]
    IN  OnKnownHost(q) =>
          /\ EndsWith(q.root, <<"/">>)
          /\ ~EndsWith(q.root, <<"/", "/">>)
          /\ \A i \in DOMAIN q.log : StartsWith(q.log[i].path, q.root)
          /\ (LeavesRoot(q.root, PathNameOf(q)) \/ "%" \in Range(PathNameOf(q)))
               => q.log = <<>>

\* C1 witness: a request for a sibling of the root ('/../w-s/k.js' under
\* '/w/') has been answered without a filesystem access.
C1_Witness ==
  \E r \in Reqs :
    LET q == rq[r]
    IN  /\ q.pc = "done"
        /\ OnKnownHost(q)
        /\ "main" \in Range(q.ran)
        /\ LeavesRoot(q.root, PathNameOf(q))
        /\ StartsWith(PathJoin(q.root, PathNameOf(q)), Front(q.root) \o <<"-">>)
        /\ q.log = <<>>
        /\ q.status = 404

\* the File Resolver ran and found no regular file
ResolverFoundNothing(q) ==
  /\ q.log # <<>>
  /\ q.fileLastModified = -1
  /\ q.pc \notin {"findFile", "findIndex"}

\* C2: when the File Resolver finds no regular file, the response is 404
\* with body '404 Not Found', never another error.
C2_MissingFileIs404 ==
  \A r \in Reqs :
    LET q == rq[r]
    IN  (q.pc = "done" /\ ResolverFoundNothing(q)) =>
          (q.status = 404 /\ q.body = [text |-> "404 Not Found", data |-> 0])

\* C3: a request whose host name is not exactly a key of the host table is
\* answered 400, text/plain, 'Invalid Host', by the host middleware alone: no
\* path mapping, no filesystem access, no other handler.
C3_UnknownHostIs400 ==
  \A r \in Reqs :
    LET q == rq[r]
    IN  (q.pc # "idle" /\ q.hostname \notin {"main.test", "exp.test"}) =>
          /\ q.pc \in {"host", "done"}
          /\ q.log = <<>>
          /\ q.logicalPath = NoString
          /\ q.root = NoString
          /\ q.pc = "done" =>
               /\ q.status = 400
               /\ q.headers = [NoHeaders EXCEPT !.ContentType = "text/plain"]
               /\ q.body = [text |-> "Invalid Host", data |-> 0]
               /\ q.ran = <<"host">>
               /\ q.sent = 1

\* C3 witness: a host name that differs from a known one only in letter case
\* has been answered 400.
C3_Witness ==
  \E r \in Reqs :
    /\ rq[r].pc = "done"
    /\ rq[r].hostname = "MAIN.TEST"
    /\ rq[r].status = 400

\* C4: every failing GET on a known host gets the same response, whatever the
\* cause: status 404, text/plain, body '404 Not Found'.
C4_FailuresIndistinguishable ==
  \A r \in Reqs :
    LET q == rq[r]
    IN  (q.pc = "done" /\ OnKnownHost(q) /\ q.method = "GET" /\ q.status # 200) =>
          /\ q.status = 404
          /\ q.headers.ContentType = "text/plain"
          /\ q.body = [text |-> "404 Not Found", data |-> 0]

\* the file type and encodings were looked up and encoding negotiation is over
NegotiationDone(q) ==
  /\ q.fileType # NoString
  /\ q.pc \in {"readFile", "notFound", "done"}

\* the path of the regular file the File Resolver returned: findFile's one
\* stat of a file, or its second stat after the stat of a directory
ResolvedPath(q) == IF q.log[1].kind = "dir" THEN q.log[2].path ELSE q.log[1].path

\* the request looked for p on disk and found a regular file / found none
TriedAndFound(q, p) ==
  \E i \in DOMAIN q.log :
     q.log[i].op = "stat" /\ q.log[i].path = p /\ q.log[i].ok /\ q.log[i].kind = "file"

TriedAndMissing(q, p) ==
  \E i \in DOMAIN q.log :
     q.log[i].op = "stat" /\ q.log[i].path = p /\ ~(q.log[i].ok /\ q.log[i].kind = "file")

IsRegularFile(f, p) == p \in DOMAIN f /\ f[p].kind = "file"

\* the encodings configured for an extension, in the order of the
\* configuration file; none when the entry has no list
ConfiguredEncodings(ext) ==
  IF "encodings" \in DOMAIN FileTypesConfig[ext] THEN FileTypesConfig[ext].encodings ELSE <<>>

\* C5: the chosen variant is the first one, in configured order, that the
\* client accepts (in any position of its list) and that was found on disk as
\* a regular file; every accepted variant configured before it was looked for
\* and is missing; no variant is chosen only when every accepted one is missing.
C5_FirstConfiguredAcceptedPresent ==
  \A r \in Reqs :
    LET q == rq[r]
        encs == ConfiguredEncodings(q.fileType)
        base == ResolvedPath(q)
        Variant(i) == base \o <<".">> \o encs[i].extension
        Accepted(i) == \E k \in DOMAIN q.acceptedEncodings :
                          q.acceptedEncodings[k] = encs[i].name
        Usable(i) == Accepted(i) /\ TriedAndFound(q, Variant(i))
        Missing(i) == TriedAndMissing(q, Variant(i)) /\ ~IsRegularFile(fs, Variant(i))
    IN  NegotiationDone(q) =>
          IF \E i \in DOMAIN encs : Usable(i)
            THEN LET first == CHOOSE i \in DOMAIN encs :
                                Usable(i) /\ \A j \in 1..(i - 1) : ~Usable(j)
                 IN  /\ q.contentEncoding = encs[first].name
                     /\ q.filePath = Variant(first)
                     /\ \A j \in 1..(first - 1) : Accepted(j) => Missing(j)
            ELSE /\ q.contentEncoding = "null"
                 /\ q.filePath = base
                 /\ \A j \in DOMAIN encs : Accepted(j) => Missing(j)

\* C5 witness: encodings configured [gzip, br], both variant files on disk,
\* a client that accepts br but not gzip: br has been chosen.
C5_Witness ==
  \E r \in Reqs :
    LET q == rq[r]
    IN  /\ NegotiationDone(q)
        /\ ConfiguredEncodings(q.fileType) =
             <<[name |-> "gzip", extension |-> Sfx_gz], [name |-> "br", extension |-> Sfx_br]>>
        /\ q.acceptedEncodings = <<"br", "identity">>
        /\ IsRegularFile(fs, ResolvedPath(q) \o <<".">> \o Sfx_gz)
        /\ IsRegularFile(fs, ResolvedPath(q) \o <<".">> \o Sfx_br)
        /\ q.contentEncoding = "br"

\* C6: after an accepted variant was found missing, the next accepted
\* configured one is looked for; a 200 response carries Content-Encoding
\* exactly when a variant was found, then names it and has its bytes as body,
\* and otherwise has the bytes of the unencoded base file.
C6_FallThroughAndContentEncoding ==
  \A r \in Reqs :
    LET q == rq[r]
        encs == ConfiguredEncodings(q.fileType)
        base == ResolvedPath(q)
        Variant(i) == base \o <<".">> \o encs[i].extension
        Accepted(i) == encs[i].name \in Range(q.acceptedEncodings)
        Found(i) == TriedAndFound(q, Variant(i))
        Tried(i) == Found(i) \/ TriedAndMissing(q, Variant(i))
    IN  /\ NegotiationDone(q) =>
             \A i \in DOMAIN encs, k \in DOMAIN encs :
                (/\ TriedAndMissing(q, Variant(i))
                 /\ i < k
                 /\ Accepted(k)
                 /\ \A j \in (i + 1)..(k - 1) : ~Accepted(j)) => Tried(k)
        /\ (q.pc = "done" /\ q.status = 200) =>
             IF \E i \in DOMAIN encs : Found(i)
               THEN \E i \in DOMAIN encs :
                      /\ Found(i)
                      /\ q.headers.ContentEncoding = encs[i].name
                      /\ q.body = [text |-> "", data |-> InitFs[Variant(i)].data]
               ELSE /\ q.headers.ContentEncoding = ""
                    /\ q.body = [text |-> "", data |-> InitFs[base].data]

\* C6 witness: the gzip variant was missing, negotiation went on to br, and
\* the response is the br variant.
C6_Witness ==
  \E r \in Reqs :
    LET q == rq[r]
    IN  /\ q.pc = "done"
        /\ q.status = 200
        /\ TriedAndMissing(q, ResolvedPath(q) \o <<".">> \o Sfx_gz)
        /\ q.headers.ContentEncoding = "br"
        /\ q.body.data = InitFs[ResolvedPath(q) \o <<".">> \o Sfx_br].data

\* C7: a 200 response carries 'Vary: Accept-Encoding' exactly when the served
\* file's type has at least one configured encoding, encoded variant or not.
C7_VaryIffEncodingsConfigured ==
  \A r \in Reqs :
    LET q == rq[r]
    IN  (q.pc = "done" /\ q.status = 200) =>
          IF Len(ConfiguredEncodings(ExtName(ResolvedPath(q)))) > 0
            THEN q.headers.Vary = "Accept-Encoding"
            ELSE q.headers.Vary = ""

\* C7 witness: the unencoded base file of a type with configured encodings
\* has been sent with the Vary header.
C7_Witness ==
  \E r \in Reqs :
    LET q == rq[r]
    IN  /\ q.pc = "done"
        /\ q.status = 200
        /\ q.headers.ContentEncoding = ""
        /\ q.body.data = InitFs[ResolvedPath(q)].data
        /\ Len(ConfiguredEncodings(q.fileType)) > 0
        /\ q.headers.Vary = "Accept-Encoding"

\* C8: until a 200 response there is no header of a successful response on
\* the response object, so a 404 or 500 response carries none of them.
C8_NoSuccessHeaderBefore200 ==
  \A r \in Reqs :
    LET q == rq[r]
    IN  q.status # 200 =>
          /\ q.headers.ContentType \in {"", "text/plain"}
          /\ q.headers.LastModified = -1
          /\ q.headers.ContentEncoding = ""
          /\ q.headers.Vary = ""
          /\ q.headers.CacheControl = ""

\* the Cache-Control value of the path-prefix rule for a request path that
\* starts with one of the three prefixes, 'no-cache' for any other path
CacheControlFor(path) ==
  IF StartsWith(path, S_js_prefix) \/ StartsWith(path, S_assets_prefix)
    THEN "public, max-age=315360000, immutable"
  ELSE IF StartsWith(path, S_blocks_media_prefix)
    THEN "public, max-age=3600, immutable"
  ELSE "no-cache"

\* C9 as stated: a 200 response has the Cache-Control of the path-prefix rule
\* when the request path starts with '/js/', '/static/assets/' or
\* '/static/blocks-media/', and 'no-cache' for every other request path.
C9_CacheControlByPrefix ==
  \A r \in Reqs :
    LET q == rq[r]
    IN  (q.pc = "done" /\ q.status = 200) =>
          q.headers.CacheControl = CacheControlFor(q.path)

\* C9 amended: the same, with the prefix compared without regard to letter
\* case ('/JS/m.js' gets the value of the '/js/*' rule).
C9_CacheControlByPrefixAnyCase ==
  \A r \in Reqs :
    LET q == rq[r]
    IN  (q.pc = "done" /\ q.status = 200) =>
          q.headers.CacheControl = CacheControlFor(ToLower(q.path))

\* C9 witness: a file under '/js/' has been served with the value set by the
\* '/js/*' rule.
C9_Witness ==
  \E r \in Reqs :
    LET q == rq[r]
    IN  /\ q.pc = "done"
        /\ q.status = 200
        /\ StartsWith(q.path, S_js_prefix)
        /\ "js" \in Range(q.ran)
        /\ q.headers.CacheControl = "public, max-age=315360000, immutable"

\* '/', '/<digits>' or '/<digits>/'
IsIndexForm(s) ==
  \/ s = <<"/">>
  \/ \E n \in 1..(Len(s) - 1) :
       /\ s[1] = "/"
       /\ \A i \in 2..(n + 1) : s[i] \in Digits
       /\ \/ Len(s) = n + 1
          \/ (Len(s) = n + 2 /\ s[n + 2] = "/")

\* '/<branch>': a slash and one or more letters, digits, '_' or '-'
IsBranchSegment(b) ==
  /\ Len(b) >= 2
  /\ b[1] = "/"
  /\ \A i \in 2..Len(b) : b[i] \in Letters \cup Digits \cup {"_", "-"}

\* path is branch followed by rest, branch being empty or, on a host with
\* branches, a branch segment, and rest having the index form
IsIndexRequest(branches, branch, rest) ==
  /\ IsIndexForm(rest)
  /\ branch = <<>> \/ (branches /\ IsBranchSegment(branch))

\* C10 as stated: a path of the index form, with or without a branch segment
\* before it, maps to '<branch>/index.html'.
C10_IndexAlias ==
  \A r \in Reqs :
    LET q == rq[r]
    IN  OnKnownHost(q) =>
          \A k \in 0..Len(q.path) :
             LET branch == SubSeq(q.path, 1, k)
                 rest == SubSeq(q.path, k + 1, Len(q.path))
             IN  IsIndexRequest(HostsConfig[q.hostname].branches, branch, rest) =>
                   q.logicalPath = branch \o S_slash_index_html

\* C10 amended: the same, except that on a host with branches '/<digits>/' is
\* read as the branch '<digits>' followed by '/', not as a path without
\* branch segment, and so maps to '/<digits>/index.html'.
C10_IndexAliasDigitsAsBranch ==
  \A r \in Reqs :
    LET q == rq[r]
        branches == HostsConfig[q.hostname].branches
    IN  OnKnownHost(q) =>
          \A k \in 0..Len(q.path) :
             LET branch == SubSeq(q.path, 1, k)
                 rest == SubSeq(q.path, k + 1, Len(q.path))
             IN  IsIndexRequest(branches, branch, rest) =>
                   IF branches /\ k = 0 /\ Len(rest) > 1 /\ Last(rest) = "/"
                     THEN q.logicalPath = Front(rest) \o S_slash_index_html
                     ELSE q.logicalPath = branch \o S_slash_index_html

\* C10 witness: '/b/3/' on a host with branches has been mapped to
\* '/b/index.html'.
C10_Witness ==
  \E r \in Reqs :
    LET q == rq[r]
    IN  /\ OnKnownHost(q)
        /\ HostsConfig[q.hostname].branches
        /\ q.path = <<"/", "b", "/", "3", "/">>
        /\ q.logicalPath = <<"/", "b">> \o S_slash_index_html

\* s without its one trailing slash
Unslashed(s) == IF Len(s) > 1 /\ Last(s) = "/" THEN Front(s) ELSE s

\* the number of digits of the '/<digits>' that precedes '/<word>' in s, 0
\* for '/<word>' alone, -1 when s (trailing slash removed) is neither
WordFormDigits(s, word) ==
  LET core == Unslashed(s)
      n == Len(core) - Len(word) - 1
  IN  IF /\ n >= 0
         /\ ToLower(SubSeq(core, n + 2, Len(core))) = word
         /\ core[n + 1] = "/"
         /\ n > 0 => (n >= 2 /\ core[1] = "/" /\ \A i \in 2..n : core[i] \in Digits)
        THEN (IF n = 0 THEN 0 ELSE n - 1)
        ELSE -1

WordTargets ==
  { [word |-> S_editor, target |-> S_slash_editor_html],
    [word |-> S_fullscreen, target |-> S_slash_fullscreen_html] }

\* C11 as stated: on every host, '/editor' and '/<digits>/editor', with or
\* without trailing slash and in any letter case, map to '/editor.html', and
\* the same paths with 'fullscreen' to '/fullscreen.html'.
C11_WordAlias ==
  \A r \in DOMAIN rq, w \in WordTargets :
    LET q == rq[r]
    IN  (OnKnownHost(q) /\ WordFormDigits(q.path, w.word) >= 0) =>
          q.logicalPath = w.target

\* C11 amended: so on a host without branches. On a host with branches the
\* leading segment is the branch: '/<digits>/editor' maps to
\* '/<digits>/editor.html', '/editor/' (with the slash) is the index route of
\* the branch 'editor' and maps to '/editor/index.html', and only '/editor'
\* maps to '/editor.html'.
C11_WordAliasUnderBranch ==
  \A r \in DOMAIN rq, w \in WordTargets :
    LET q == rq[r]
        n == WordFormDigits(q.path, w.word)
    IN  (OnKnownHost(q) /\ n >= 0) =>
          IF ~HostsConfig[q.hostname].branches THEN q.logicalPath = w.target
          ELSE IF n > 0 THEN q.logicalPath = SubSeq(q.path, 1, n + 1) \o w.target
          ELSE IF Last(q.path) = "/" THEN q.logicalPath = Front(q.path) \o S_slash_index_html
          ELSE q.logicalPath = w.target

\* C11 witness: '/12/Editor' on a host without branches has been mapped to
\* '/editor.html'.
C11_Witness ==
  \E r \in DOMAIN rq :
    LET q == rq[r]
    IN  /\ OnKnownHost(q)
        /\ ~HostsConfig[q.hostname].branches
        /\ q.path = <<"/", "1", "2", "/", "E", "d", "i", "t", "o", "r">>
        /\ q.logicalPath = S_slash_editor_html

\* the request was resolved through a directory: the first stat found a
\* directory, the second found its index.html as a regular file
ResolvedThroughDirectory(q) ==
  /\ Len(q.log) >= 2
  /\ q.log[1].op = "stat" /\ q.log[1].ok /\ q.log[1].kind = "dir"
  /\ q.log[2].op = "stat" /\ q.log[2].ok /\ q.log[2].kind = "file"
  /\ q.log[2].path = Untrailed(q.log[1].path) \o S_slash_index_html

\* C12: a request that resolves to a directory with a regular index.html
\* (still there when the response is sent) is answered 200 with the content
\* of that index.html and a Last-Modified that is the index.html's
\* modification time, not the directory's.
C12_DirectoryServesIndex ==
  \A r \in DOMAIN rq :
    LET q == rq[r]
    IN  (q.pc = "done" /\ ResolvedThroughDirectory(q) /\ IsRegularFile(fs, q.log[2].path)) =>
          /\ q.status = 200
          /\ q.body = [text |-> "", data |-> InitFs[q.log[2].path].data]
          /\ q.headers.LastModified = InitFs[q.log[2].path].mtime \div 1000
          /\ q.headers.ContentType = FileTypesConfig[Ext_html].type

\* C12 witness: a directory's index.html has been sent, and the directory's
\* own modification time would have given another Last-Modified.
C12_Witness ==
  \E r \in DOMAIN rq :
    LET q == rq[r]
    IN  /\ q.pc = "done" /\ q.status = 200
        /\ ResolvedThroughDirectory(q)
        /\ q.body.data = InitFs[q.log[2].path].data
        /\ InitFs[Untrailed(q.log[1].path)].mtime \div 1000 # q.headers.LastModified

\* the file chosen for serving was found by its stat and was gone at the read
ReadRaceLost(q) ==
  /\ q.log # <<>>
  /\ Last(q.log).op = "read" /\ ~Last(q.log).ok
  /\ TriedAndFound(q, Last(q.log).path)

\* the read race ends in the 404 response; the headers are not constrained
ReadRaceIs404(q) ==
  /\ q.status = 404
  /\ q.sent = 1
  /\ q.body = [text |-> "404 Not Found", data |-> 0]
  /\ "error" \notin Range(q.ran)

\* C13: when the file chosen for serving is deleted after its stat and before
\* its read, the request ends with the 404 response: no 500, one send, and no
\* header of a successful response on it.
C13_ReadRaceIsPlain404 ==
  \A r \in DOMAIN rq :
    LET q == rq[r]
    IN  (q.pc = "done" /\ ReadRaceLost(q)) =>
          /\ ReadRaceIs404(q)
          /\ q.headers = [NoHeaders EXCEPT !.ContentType = "text/plain"]

\* the part of C13 that holds: 404, one send, no 500, and of the success
\* headers only the Cache-Control of a path-prefix handler
C13_ReadRaceIs404UpToCacheControl ==
  \A r \in DOMAIN rq :
    LET q == rq[r]
    IN  (q.pc = "done" /\ ReadRaceLost(q)) =>
          /\ ReadRaceIs404(q)
          /\ q.headers = [NoHeaders EXCEPT !.ContentType = "text/plain",
                                           !.CacheControl = q.headers.CacheControl]
          /\ q.headers.CacheControl # "" => Range(q.ran) \cap {"js", "assets", "blocksMedia"} # {}

\* the characters C14 lists: letters, digits, dot, underscore, hyphen, slash,
\* tilde
ListedCharacters == Letters \cup Digits \cup {".", "_", "-", "/", "~"}

\* the main handler let pathName through its character filter: it went on to
\* safeJoin, which either rejected the path (the join does not start with
\* the root) or handed it to findFile
PassedCharacterFilter(q) ==
  \/ safeJoin(q.root, PathNameOf(q)) = NoString /\ q.log = <<>>
  \/ q.pc = "findFile"
  \/ q.log # <<>>

\* the main handler sent the request to not-found without a filesystem access
RejectedBeforeAccess(q) ==
  /\ q.log = <<>>
  /\ q.pc \in {"notFound", "done"}
  /\ q.pc = "done" => (q.status = 404 /\ q.body.text = "404 Not Found")

\* C14: the character filter lets through exactly the paths made of the
\* characters a-z A-Z 0-9 . _ - / ~ and sends every other path to not-found
\* before safeJoin or any filesystem access.
C14_FilterPassesListedCharacters ==
  \A r \in DOMAIN rq :
    LET q == rq[r]
        pathName == PathNameOf(q)
    IN  "main" \in Range(q.ran) =>
          IF \A i \in DOMAIN pathName : pathName[i] \in ListedCharacters
            THEN PassedCharacterFilter(q)
            ELSE RejectedBeforeAccess(q)

\* what the filter does: the same with the underscore among the rejected
\* characters
C14_FilterPassesAllButUnderscore ==
  \A r \in DOMAIN rq :
    LET q == rq[r]
        pathName == PathNameOf(q)
    IN  "main" \in Range(q.ran) =>
          IF \A i \in DOMAIN pathName : pathName[i] \in ListedCharacters \ {"_"}
            THEN PassedCharacterFilter(q)
            ELSE RejectedBeforeAccess(q)

\* the File Resolver's last stat was of a file that was there at the start and
\* had been deleted by then: the candidate at the first stat, or a directory's
\* index.html at the second
ResolverLostRace(q) ==
  /\ q.log # <<>>
  /\ q.pc \notin {"findFile", "findIndex"}
  /\ LET last == IF q.log[1].ok /\ q.log[1].kind = "dir" /\ Len(q.log) >= 2
                   THEN q.log[2] ELSE q.log[1]
     IN  /\ last.op = "stat" /\ ~last.ok
         /\ IsRegularFile(InitFs, last.path)

\* C15: when the candidate is deleted before the first stat, or a directory's
\* index.html between the two stats, the request ends with the 404 response,
\* never with a 500.
C15_ResolverRaceIs404 ==
  \A r \in DOMAIN rq :
    LET q == rq[r]
    IN  ResolverLostRace(q) =>
          /\ q.pc \in {"notFound", "done"}
          /\ "error" \notin Range(q.ran)
          /\ q.pc = "done" => (q.status = 404 /\ q.body.text = "404 Not Found")

\* C16: on every successful response Last-Modified is the modification time
\* of the base file the File Resolver returned, also when an encoded variant
\* with another modification time is the file read and sent.
C16_LastModifiedOfBaseFile ==
  \A r \in DOMAIN rq :
    LET q == rq[r]
    IN  (q.pc = "done" /\ q.status = 200) =>
          /\ TriedAndFound(q, ResolvedPath(q))
          /\ q.headers.LastModified = InitFs[ResolvedPath(q)].mtime \div 1000

\* C16 witness: an encoded variant has been sent whose own modification time
\* gives another Last-Modified than the one on the response.
C16_Witness ==
  \E r \in DOMAIN rq :
    LET q == rq[r]
    IN  /\ q.pc = "done" /\ q.status = 200
        /\ q.headers.ContentEncoding # ""
        /\ Last(q.log).op = "read" /\ Last(q.log).path # ResolvedPath(q)
        /\ q.body.data = InitFs[Last(q.log).path].data
        /\ InitFs[Last(q.log).path].mtime \div 1000 # q.headers.LastModified

\* no way of reading path as an optional branch segment (on a host with
\* branches) followed by an index, editor or fullscreen form
NoAliasForm(branches, path) ==
  \A k \in 0..Len(path) :
     LET branch == SubSeq(path, 1, k)
         rest == SubSeq(path, k + 1, Len(path))
     IN  (branch = <<>> \/ (branches /\ IsBranchSegment(branch))) =>
           /\ ~IsIndexForm(rest)
           /\ WordFormDigits(rest, S_editor) < 0
           /\ WordFormDigits(rest, S_fullscreen) < 0

\* C17: when no alias rule matches, no logical path is set and the path that
\* is looked up is the root joined with the raw request path, branch segment
\* included, on hosts with and without branches.
C17_RawPathWhenNoAlias ==
  \A r \in DOMAIN rq :
    LET q == rq[r]
    IN  (OnKnownHost(q) /\ NoAliasForm(HostsConfig[q.hostname].branches, q.path)) =>
          /\ q.logicalPath = NoString
          /\ q.log # <<>> => q.log[1].path = PathJoin(q.root, q.path)

\* C17 witness: on a host with branches '/b/index.html' has been looked up
\* with its branch segment, and served.
C17_Witness ==
  \E r \in DOMAIN rq :
    LET q == rq[r]
    IN  /\ OnKnownHost(q)
        /\ HostsConfig[q.hostname].branches
        /\ q.path = <<"/", "b">> \o S_slash_index_html
        /\ q.log # <<>>
        /\ q.log[1].path = q.root \o <<"b">> \o S_slash_index_html
        /\ q.pc = "done" /\ q.status = 200

\* the extension as C18 defines it: the substring from the last '.' of the
\* file name, empty when the name has no '.'
LastDotExtension(p) ==
  LET name == SubSeq(p, LastIndexOf(p, "/") + 1, Len(p))
      dot == LastIndexOf(name, ".")
  IN  IF dot = 0 THEN <<>> ELSE SubSeq(name, dot, Len(name))

\* the File Resolver returned a regular file whose extension is not a key of
\* the file type table
ResolvedUnsupportedType(q) ==
  /\ q.log # <<>>
  /\ q.pc \notin {"findFile", "findIndex"}
  /\ TriedAndFound(q, ResolvedPath(q))
  /\ LastDotExtension(ResolvedPath(q)) \notin DOMAIN FileTypesConfig

\* C18: a resolved regular file whose extension is not a key of the file type
\* table (exact match, the empty extension included) is answered with the 404
\* response; no variant is looked for, and its content is never read or sent.
C18_UnsupportedTypeIs404 ==
  \A r \in DOMAIN rq :
    LET q == rq[r]
    IN  ResolvedUnsupportedType(q) =>
          /\ \A i \in DOMAIN q.log : q.log[i].op = "stat" /\ i <= 2
          /\ q.pc \in {"notFound", "done"}
          /\ q.pc = "done" =>
               /\ q.status = 404
               /\ q.body = [text |-> "404 Not Found", data |-> 0]
               /\ q.headers.ContentType = "text/plain"

\* C18 witness: files with an unknown extension, with an extension that
\* differs from a key in case only, and with no extension are all there to be
\* found, and one of them has been answered 404.
C18_Witness ==
  /\ \A e \in {<<".", "b", "i", "n">>, <<".", "J", "S">>, <<>>} :
        \E p \in DOMAIN InitFs : InitFs[p].kind = "file" /\ LastDotExtension(p) = e
  /\ \E r \in DOMAIN rq :
       LET q == rq[r]
       IN  /\ ResolvedUnsupportedType(q)
           /\ q.pc = "done" /\ q.status = 404

\* what the client sent and what it got back
RequestOf(q) == <<q.hostname, q.method, q.path, q.acceptedEncodings>>

ResponseOf(q) == <<q.status, q.headers, q.body, q.sent>>

AtSuspensionPoint(q) == q.pc \in {"findFile", "findIndex", "chooseEncoding", "readFile"}

ResponseStatuses == {200, 400, 404, 500}

\* C20: every GET request that enters the pipeline eventually gets a
\* response, with status 200, 400, 404 or 500; no request is ever sent two
\* responses, and a request that is finished has been sent one.
C20_ExactlyOneResponse ==
  \A r \in Reqs :
     /\ [](rq[r].sent <= 1)
     /\ []((rq[r].pc = "done" /\ rq[r].method = "GET") =>
             (rq[r].sent = 1 /\ rq[r].status \in ResponseStatuses))
     /\ [](rq[r].sent = 1 => rq[r].pc = "done")
     /\ (rq[r].pc = "host" /\ rq[r].method = "GET") ~> (rq[r].pc = "done")

\* C20 witness: a GET request has gone through every stage, variant lookup
\* and read included, and has its one response.
C20_Witness ==
  \E r \in Reqs :
    LET q == rq[r]
    IN  /\ q.pc = "done" /\ q.method = "GET"
        /\ q.sent = 1 /\ q.status = 200
        /\ q.headers.ContentEncoding # ""
        /\ Len(q.log) >= 3

====
